---- MODULE Spec2Model ----
(***************************************************************************)
(* Work Queue executor of coffea (coffea/processor/work_queue_tools.py):   *)
(* the processing loop, the resubmission policy (retry clone / split on    *)
(* resource exhaustion) and the accumulation scheduler.                    *)
(***************************************************************************)
EXTENDS Integers, Sequences, FiniteSets, TLC

\* ---------------------------------------------------------------- bounds
ItemsTotal == 3          \* executor.events_total of the modelled runs
MaxChunksize == 3        \* largest executor.chunksize drawn at Init
MaxRetries == 2          \* largest executor.retries drawn at Init
MaxChunksPerAccum == 2   \* largest executor.chunks_per_accum drawn at Init
MaxFout == 1             \* output artifact sizes are 0..MaxFout
MaxFailures == 2         \* failures the backend reports in one run
MaxSplitTotal == 12      \* largest unit size of the split specification
MaxSplitTarget == 13     \* largest adaptive chunk size of the split specification
MaxChunksAccumInMem == 2 \* largest executor.chunks_accum_in_mem drawn at Init
MaxProjected == 5        \* largest chunk size projected from the reports
MaxBase == 40            \* largest base chunk size given to the estimator
MaxReports == 3          \* most reports given to the estimator
MaxGroupSize == 4        \* largest chunks_per_accum of the scheduler specification
MaxValue == 70           \* largest computed value given to the flooring
FairItems == 2           \* executor.events_total of the fair runs
FairRetries == 2         \* largest executor.retries of the fair runs
MaxFiles == 6            \* most files given to accumulate_result_files
MaxInMem == 4            \* largest chunks_accum_in_mem given to it

VARIABLES
    executor,             \* configuration: retries, split_on_exhaustion, ...
    tasks,                \* every task ever constructed, by construction order
    tasks_to_accumulate,  \* pending list of the accumulation scheduler (task ids)
    items_submitted,
    items_done,
    chunksize,            \* local chunksize of _work_queue_processing
    update_chunksize,
    current_chunksize,    \* queue.current_chunksize
    early_terminate,
    merged,               \* task ids merged by the final local reduction
    last,                 \* what the last handler did (history of one step)
    pc,
    frame,                \* locals of accumulate_result_files while it runs
    outputs               \* the output artifacts (outfile_output) on disk

vars == << executor, tasks, tasks_to_accumulate, items_submitted, items_done,
           chunksize, update_chunksize, current_chunksize, early_terminate,
           merged, last, pc, frame, outputs >>

\* accumulate_result_files is not running
NotCalled ==
    [ chunks_accum_in_mem |-> 0, files_to_accumulate |-> << >>,
      accumulator |-> << >>, initial |-> FALSE, in_memory |-> << >> ]

\* no output artifact was written yet: exists = the item ids whose
\* out_{itemid}.p is on disk, removed = those whose file os.remove deleted,
\* unloadable = those whose file cannot be read back into a result
NoOutputs == [ exists |-> { }, removed |-> { }, unloadable |-> { } ]

\* ------------------------------------------------------------ arithmetic
Min(a, b) == IF a <= b THEN a ELSE b
Max(a, b) == IF a >= b THEN a ELSE b

\* math.ceil(a / b) for positive b
CeilDiv(a, b) == (a + b - 1) \div b

RECURSIVE _floor_to_pow2(_)
_floor_to_pow2(value) ==
    IF value < 2 THEN 1 ELSE 2 * _floor_to_pow2(value \div 2)

RECURSIVE SumSeq(_)
SumSeq(s) == IF s = << >> THEN 0 ELSE Head(s) + SumSeq(Tail(s))

Range(s) == { s[i] : i \in DOMAIN s }

\* ----------------------------------------------------------------- tasks
\* CoffeaWQTask.__init__: a fresh task has the executor's whole retry budget.
\* itemid is the value of tasks_counter when no itemid is passed in.
CoffeaWQTask(category, entrystart, entrystop, inputs, size, itemid) ==
    [ category |-> category,
      entrystart |-> entrystart,
      entrystop |-> entrystop,
      tasks_to_accumulate |-> inputs,
      size |-> size,
      itemid |-> itemid,
      retries_to_go |-> executor.retries,
      chunks_accum_in_mem |->
          [ bound |-> TRUE,
            value |-> IF category = "accumulating"
                      THEN executor.chunks_accum_in_mem ELSE 0 ],
      status |-> "submitted",
      result |-> "none",
      fout_size |-> 0 ]

ProcCoffeaWQTask(entrystart, entrystop, itemid) ==
    CoffeaWQTask("processing", entrystart, entrystop, << >>,
                 entrystop - entrystart, itemid)

AccumCoffeaWQTask(ts, inputs, itemid) ==
    CoffeaWQTask("accumulating", 0, 0, inputs,
                 SumSeq([k \in DOMAIN inputs |-> ts[inputs[k]].size]), itemid)

\* a preprocessing task for the file number item: size 1
PreProcCoffeaWQTask(item, itemid) ==
    CoffeaWQTask("preprocessing", item, item + 1, << >>, 1, itemid)

\* the clone methods of the three task classes: same item (or input
\* list); the constructor resets retries_to_go, resubmit overwrites it.
\* ProcCoffeaWQTask.clone and PreProcCoffeaWQTask.clone pass self.itemid on;
\* AccumCoffeaWQTask.clone
\* passes it in the position of chunks_accum_in_mem, so that the clone's
\* itemid is None and a new one is drawn from tasks_counter.
\* The first argument of the remote accumulate_result_files is then the
\* item id (bound = FALSE: a string, not a number).
clone(ts, t) ==
    IF t.category = "processing"
    THEN ProcCoffeaWQTask(t.entrystart, t.entrystop, t.itemid)
    ELSE IF t.category = "preprocessing"
    THEN PreProcCoffeaWQTask(t.entrystart, t.itemid)
    ELSE [ AccumCoffeaWQTask(ts, t.tasks_to_accumulate, Len(ts))
             EXCEPT !.chunks_accum_in_mem = [ bound |-> FALSE, value |-> t.itemid ] ]

\* ----------------------------------------------------------------- split
\* mutation of SplitRanges: the next sub-range starts one event too far
RECURSIVE SplitRanges_Gap(_, _, _)
SplitRanges_Gap(start, entrystop, size) ==
    IF start < entrystop
    THEN LET stop == Min(entrystop, start + size)
         IN  << << start, stop >> >> \o SplitRanges_Gap(stop + 1, entrystop, size)
    ELSE << >>

\* the while loop of ProcCoffeaWQTask.split: consecutive sub-ranges
RECURSIVE SplitRanges(_, _, _)
SplitRanges(start, entrystop, size) ==
    IF start < entrystop
    THEN LET stop == Min(entrystop, start + size)
         IN  << << start, stop >> >> \o SplitRanges(stop, entrystop, size)
    ELSE << >>

\* mutation of target_chunksize: a unit not larger than the adaptive size
\* is not halved
target_chunksize_NoHalving(total, cur) == cur

target_chunksize(total, cur) ==
    IF total <= cur THEN CeilDiv(total, 2) ELSE cur

\* mutation of actual_chunksize: floor instead of ceil
actual_chunksize_Floor(total, cur) ==
    LET n == Max(CeilDiv(total, target_chunksize(total, cur)), 1)
    IN  Max(total \div n, 1)

actual_chunksize(total, cur) ==
    LET n == Max(CeilDiv(total, target_chunksize(total, cur)), 1)
    IN  CeilDiv(total, n)

\* mutation of split_ranges: the last sub-range starts at the parent's start
split_ranges_LastFromStart(entrystart, entrystop, cur) ==
    LET ranges == SplitRanges(entrystart, entrystop,
                              actual_chunksize(entrystop - entrystart, cur))
    IN  [ ranges EXCEPT ![Len(ranges)] = << entrystart, entrystop >> ]

\* the range computation of ProcCoffeaWQTask.split (lines 504-524)
split_ranges(entrystart, entrystop, cur) ==
    SplitRanges(entrystart, entrystop,
                actual_chunksize(entrystop - entrystart, cur))

\* mutation of split: the children keep the parent's remaining budget
split_InheritBudget(ts, t, cur) ==
    LET ranges == split_ranges(t.entrystart, t.entrystop, cur)
    IN  [ k \in DOMAIN ranges |->
            [ ProcCoffeaWQTask(ranges[k][1], ranges[k][2], Len(ts) + k - 1)
                EXCEPT !.retries_to_go = t.retries_to_go ] ]

\* ProcCoffeaWQTask.split for a unit t of at least 2 events: one fresh task
\* per sub-range, built by the constructor (itemid None, full retry budget)
split(ts, t, cur) ==
    LET ranges == split_ranges(t.entrystart, t.entrystop, cur)
    IN  [ k \in DOMAIN ranges |->
            ProcCoffeaWQTask(ranges[k][1], ranges[k][2], Len(ts) + k - 1) ]

\* -------------------------------------------------------------- resubmit
\* CoffeaWQTask.resubmit for the failed task t (its result already set):
\* raised = the RuntimeError of resubmit or of split; resubmissions = the
\* tasks handed to queue.submit, in order. split raises for a processing
\* task of fewer than 2 events (line 506) and for every other category
\* (CoffeaWQTask.split, line 321).
\* mutation of resubmit: the clone's retries_to_go is not decreased
resubmit_NoDecrement(ts, t) ==
    IF t.retries_to_go < 1 \/ ~executor.split_on_exhaustion
    THEN [ raised |-> TRUE, resubmissions |-> << >> ]
    ELSE IF t.result = "exhaustion"
    THEN IF t.category = "processing" /\ t.size >= 2
         THEN [ raised |-> FALSE,
                resubmissions |-> split(ts, t, current_chunksize) ]
         ELSE [ raised |-> TRUE, resubmissions |-> << >> ]
    ELSE [ raised |-> FALSE, resubmissions |-> << clone(ts, t) >> ]

\* mutation of resubmit: resource exhaustion is retried whole, like any failure
resubmit_RetryOnExhaustion(ts, t) ==
    IF t.retries_to_go < 1 \/ ~executor.split_on_exhaustion
    THEN [ raised |-> TRUE, resubmissions |-> << >> ]
    ELSE [ raised |-> FALSE,
           resubmissions |->
               << [ clone(ts, t) EXCEPT !.retries_to_go = t.retries_to_go - 1 ] >> ]

\* mutation of resubmit: a task that is not a processing task is retried
\* after a resource exhaustion, as after any other failure
resubmit_RetryUnsplittable(ts, t) ==
    IF t.retries_to_go < 1 \/ ~executor.split_on_exhaustion
    THEN [ raised |-> TRUE, resubmissions |-> << >> ]
    ELSE IF t.result = "exhaustion" /\ t.category = "processing"
    THEN IF t.size >= 2
         THEN [ raised |-> FALSE,
                resubmissions |-> split(ts, t, current_chunksize) ]
         ELSE [ raised |-> TRUE, resubmissions |-> << >> ]
    ELSE [ raised |-> FALSE,
           resubmissions |->
               << [ clone(ts, t) EXCEPT !.retries_to_go = t.retries_to_go - 1 ] >> ]

\* mutation of resubmit: the remaining budget is not looked at
resubmit_NoBudgetCheck(ts, t) ==
    IF ~executor.split_on_exhaustion
    THEN [ raised |-> TRUE, resubmissions |-> << >> ]
    ELSE IF t.result = "exhaustion"
    THEN IF t.category = "processing" /\ t.size >= 2
         THEN [ raised |-> FALSE,
                resubmissions |-> split(ts, t, current_chunksize) ]
         ELSE [ raised |-> TRUE, resubmissions |-> << >> ]
    ELSE [ raised |-> FALSE,
           resubmissions |->
               << [ clone(ts, t) EXCEPT !.retries_to_go = t.retries_to_go - 1 ] >> ]

resubmit(ts, t) ==
    IF t.retries_to_go < 1 \/ ~executor.split_on_exhaustion
    THEN [ raised |-> TRUE, resubmissions |-> << >> ]
    ELSE IF t.result = "exhaustion"
    THEN IF t.category = "processing" /\ t.size >= 2
         THEN [ raised |-> FALSE,
                resubmissions |-> split(ts, t, current_chunksize) ]
         ELSE [ raised |-> TRUE, resubmissions |-> << >> ]
    ELSE [ raised |-> FALSE,
           resubmissions |->
               << [ clone(ts, t) EXCEPT !.retries_to_go = t.retries_to_go - 1 ] >> ]

\* ------------------------------------------------- accumulation scheduler
\* list.sort(key=fout_size): stable, ascending
RECURSIVE Insert(_, _, _)
Insert(ts, sorted, id) ==
    IF sorted = << >> THEN << id >>
    ELSE IF ts[id].fout_size < ts[Head(sorted)].fout_size
         THEN << id >> \o sorted
         ELSE << Head(sorted) >> \o Insert(ts, Tail(sorted), id)

RECURSIVE SortByFout(_, _)
SortByFout(ts, lst) ==
    IF lst = << >> THEN << >>
    ELSE Insert(ts, SortByFout(ts, SubSeq(lst, 1, Len(lst) - 1)), lst[Len(lst)])

\* mutation of _group_lst: only the first sublist is returned, the elements
\* after it are lost
_group_lst_FirstOnly(lst, n) ==
    IF lst = << >> THEN << >>
    ELSE << SubSeq(lst, 1, Min(n, Len(lst))) >>

\* _group_lst: consecutive sublists of length n (the last may be shorter)
RECURSIVE _group_lst(_, _)
_group_lst(lst, n) ==
    IF lst = << >> THEN << >>
    ELSE << SubSeq(lst, 1, Min(n, Len(lst))) >>
         \o _group_lst(SubSeq(lst, Min(n, Len(lst)) + 1, Len(lst)), n)

\* mutation of EmitGroups: a single remaining result is wrapped as well
RECURSIVE EmitGroups_NoMinimum(_, _, _)
EmitGroups_NoMinimum(ts, groups, force_last_accum) ==
    IF groups = << >> THEN [ tasks |-> ts, pending |-> << >> ]
    ELSE LET next_to_accum == Head(groups) IN
         IF Len(next_to_accum) < executor.chunks_per_accum /\ ~force_last_accum
         THEN [ tasks |-> ts, pending |-> next_to_accum ]
         ELSE EmitGroups_NoMinimum(
                  Append(ts, AccumCoffeaWQTask(ts, next_to_accum, Len(ts))),
                  Tail(groups), force_last_accum)

\* mutation of EmitGroups: the group that is too short to emit is dropped
\* instead of being returned as the new pending list
RECURSIVE EmitGroups_DropLeftover(_, _, _)
EmitGroups_DropLeftover(ts, groups, force_last_accum) ==
    IF groups = << >> THEN [ tasks |-> ts, pending |-> << >> ]
    ELSE LET next_to_accum == Head(groups) IN
         IF Len(next_to_accum) < 2
         THEN [ tasks |-> ts, pending |-> << >> ]
         ELSE IF Len(next_to_accum) < executor.chunks_per_accum /\ ~force_last_accum
         THEN [ tasks |-> ts, pending |-> << >> ]
         ELSE EmitGroups_DropLeftover(
                  Append(ts, AccumCoffeaWQTask(ts, next_to_accum, Len(ts))),
                  Tail(groups), force_last_accum)

\* the for loop of _submit_accum_tasks over the groups
RECURSIVE EmitGroups(_, _, _)
EmitGroups(ts, groups, force_last_accum) ==
    IF groups = << >> THEN [ tasks |-> ts, pending |-> << >> ]
    ELSE LET next_to_accum == Head(groups) IN
         IF Len(next_to_accum) < 2
         THEN [ tasks |-> ts, pending |-> next_to_accum ]
         ELSE IF Len(next_to_accum) < executor.chunks_per_accum /\ ~force_last_accum
         THEN [ tasks |-> ts, pending |-> next_to_accum ]
         ELSE EmitGroups(Append(ts, AccumCoffeaWQTask(ts, next_to_accum, Len(ts))),
                         Tail(groups), force_last_accum)

\* mutation of _submit_accum_tasks: the pending list is cut in groups of 2
_submit_accum_tasks_Pairs(ts, lst, force_last_accum) ==
    IF executor.chunks_per_accum < 2 \/ executor.chunks_accum_in_mem < 2
    THEN [ raised |-> TRUE, tasks |-> ts, pending |-> lst ]
    ELSE IF Len(lst) < 2 * executor.chunks_per_accum - 1 /\ ~force_last_accum
    THEN [ raised |-> FALSE, tasks |-> ts, pending |-> lst ]
    ELSE LET r == EmitGroups(ts, _group_lst(SortByFout(ts, lst), 2), TRUE)
         IN  [ raised |-> FALSE, tasks |-> r.tasks, pending |-> r.pending ]

\* mutation of _submit_accum_tasks: force_last_accum is ignored, emission is
\* never forced
_submit_accum_tasks_NeverForced(ts, lst, force_last_accum) ==
    IF executor.chunks_per_accum < 2 \/ executor.chunks_accum_in_mem < 2
    THEN [ raised |-> TRUE, tasks |-> ts, pending |-> lst ]
    ELSE IF Len(lst) < 2 * executor.chunks_per_accum - 1
    THEN [ raised |-> FALSE, tasks |-> ts, pending |-> lst ]
    ELSE LET r == EmitGroups(ts, _group_lst(SortByFout(ts, lst), executor.chunks_per_accum),
                             FALSE)
         IN  [ raised |-> FALSE, tasks |-> r.tasks, pending |-> r.pending ]

\* mutation of _submit_accum_tasks: the emission threshold is chunks_per_accum
\* instead of 2 * chunks_per_accum - 1
_submit_accum_tasks_Eager(ts, lst, force_last_accum) ==
    IF executor.chunks_per_accum < 2 \/ executor.chunks_accum_in_mem < 2
    THEN [ raised |-> TRUE, tasks |-> ts, pending |-> lst ]
    ELSE IF Len(lst) < executor.chunks_per_accum /\ ~force_last_accum
    THEN [ raised |-> FALSE, tasks |-> ts, pending |-> lst ]
    ELSE LET r == EmitGroups(ts, _group_lst(SortByFout(ts, lst), executor.chunks_per_accum),
                             force_last_accum)
         IN  [ raised |-> FALSE, tasks |-> r.tasks, pending |-> r.pending ]

\* _submit_accum_tasks: the tasks after the emission and the new pending list
_submit_accum_tasks(ts, lst, force_last_accum) ==
    IF executor.chunks_per_accum < 2 \/ executor.chunks_accum_in_mem < 2
    THEN [ raised |-> TRUE, tasks |-> ts, pending |-> lst ]
    ELSE IF Len(lst) < 2 * executor.chunks_per_accum - 1 /\ ~force_last_accum
    THEN [ raised |-> FALSE, tasks |-> ts, pending |-> lst ]
    ELSE LET r == EmitGroups(ts, _group_lst(SortByFout(ts, lst), executor.chunks_per_accum),
                             force_last_accum)
         IN  [ raised |-> FALSE, tasks |-> r.tasks, pending |-> r.pending ]

\* ------------------------------------------------------------- estimator
\* executor.dynamic_chunksize is None or a dictionary of resource targets:
\* keys are the names it holds, value[k] the target of a name it holds
ResourceNames == { "wall_time", "memory", "cores" }

Truthy(targets) == ~targets.none /\ targets.keys # { }

\* _check_dynamic_chunksize_targets: TRUE when it raises KeyError
_check_dynamic_chunksize_targets(targets) ==
    Truthy(targets) /\ \E k \in targets.keys : k \notin { "wall_time", "memory" }

\* task_reports: one entry per successful processing task (its number of
\* events; the measured time and memory are inputs of the run)
task_reports ==
    LET done == SelectSeq(tasks, LAMBDA t : t.category = "processing" /\ t.status = "done")
    IN  [ k \in DOMAIN done |-> done[k].size ]

\* number of entries of task_reports
NumReports ==
    Cardinality({ i \in DOMAIN tasks :
                    tasks[i].category = "processing" /\ tasks[i].status = "done" })

\* what _compute_chunksize_target can return: None (no information in the
\* reports), or the projection slope * target + intercept, which the measured
\* times and memory of the reports fix
NoEstimate == [ some |-> FALSE, value |-> 0 ]
Projected == { [ some |-> TRUE, value |-> v ] : v \in (-1)..MaxProjected }

_compute_chunksize_target(target, pairs) ==
    IF Len(pairs) < 1 THEN { NoEstimate } ELSE { NoEstimate } \cup Projected

\* min(candidate_sizes) over the estimates that are neither None nor 0,
\* base_chunksize when there is none
ChosenSize(base_chunksize, chunksize_time, chunksize_memory) ==
    LET candidate_sizes ==
            { c.value : c \in { d \in { chunksize_time, chunksize_memory } :
                                  d.some /\ d.value # 0 } }
    IN  IF candidate_sizes # { }
        THEN CHOOSE c \in candidate_sizes : \A d \in candidate_sizes : c <= d
        ELSE base_chunksize

\* mutation of _compute_chunksize: the base size is returned as it is when
\* no resource dimension gives an estimate
_compute_chunksize_BaseUnfloored(base_chunksize, resource_targets, reports) ==
    LET fit == ~resource_targets.none /\ Len(reports) > 1
        dimension(k) ==
            IF fit /\ k \in resource_targets.keys /\ resource_targets.value[k] # 0
            THEN _compute_chunksize_target(resource_targets.value[k], reports)
            ELSE { NoEstimate }
    IN  IF fit /\ "memory" \notin resource_targets.keys
        THEN { [ raised |-> TRUE, chunksize |-> base_chunksize ] }
        ELSE { [ raised |-> FALSE,
                 chunksize |->
                     IF (ct.some /\ ct.value # 0) \/ (cm.some /\ cm.value # 0)
                     THEN _floor_to_pow2(ChosenSize(base_chunksize, ct, cm))
                     ELSE base_chunksize ] :
                 ct \in dimension("wall_time"), cm \in dimension("memory") }

\* _compute_chunksize: the outcomes for the given base size, targets and
\* reports. raised = the KeyError of resource_targets["memory"] (line 1200).
_compute_chunksize(base_chunksize, resource_targets, reports) ==
    LET fit == ~resource_targets.none /\ Len(reports) > 1
        dimension(k) ==
            IF fit /\ k \in resource_targets.keys /\ resource_targets.value[k] # 0
            THEN _compute_chunksize_target(resource_targets.value[k], reports)
            ELSE { NoEstimate }
    IN  IF fit /\ "memory" \notin resource_targets.keys
        THEN { [ raised |-> TRUE, chunksize |-> base_chunksize ] }
        ELSE { [ raised |-> FALSE,
                 chunksize |-> _floor_to_pow2(ChosenSize(base_chunksize, ct, cm)) ] :
                 ct \in dimension("wall_time"), cm \in dimension("memory") }

\* _compute_chunksize seen from the loop
ComputedChunksizes ==
    _compute_chunksize(executor.chunksize, executor.dynamic_chunksize, task_reports)

\* _sample_chunksize: the value or half of it, never below 1
_sample_chunksize(c) == { c, Max(c \div 2, 1) }

\* ------------------------------------------------------------------ loop
\* outfile_output of the tasks of a list (out_{itemid}.p, named by itemid)
OutputsOf(ts, ids) == { ts[ids[k]].itemid : k \in DOMAIN ids }

\* os.remove raises for a file that is not there, or was removed already
RemoveRaises(out, ts, ids) ==
    \/ ~(OutputsOf(ts, ids) \subseteq out.exists)
    \/ Cardinality(OutputsOf(ts, ids)) # Len(ids)

\* mutation of cleanup_outputs: the files are left on disk
cleanup_outputs_Keep(out, ts, ids) == out

\* cleanup_outputs of every task of a list
cleanup_outputs(out, ts, ids) ==
    [ out EXCEPT !.exists = @ \ OutputsOf(ts, ids),
                 !.removed = @ \cup OutputsOf(ts, ids) ]

\* the outputs of the successful tasks of ts, none consumed yet
OutputsOnDisk(ts) ==
    [ NoOutputs EXCEPT !.exists = { ts[j].itemid : j \in { k \in DOMAIN ts :
                                                             ts[k].status = "done" } } ]

\* the backend stages the output of a successful task back
StageOutput(out, t, loadable) ==
    [ out EXCEPT !.exists = @ \cup { t.itemid },
                 !.unloadable = IF loadable THEN @ \ { t.itemid }
                                ELSE @ \cup { t.itemid } ]

\* a remote accumulation task runs accumulate_result_files on its arguments:
\* it cannot end successfully when one of its inputs cannot be loaded, nor
\* when its first argument is not a number (min() at line 51 raises)
InputsLoadable(t) ==
    /\ OutputsOf(tasks, t.tasks_to_accumulate) \cap outputs.unloadable = { }
    /\ t.category = "accumulating" => t.chunks_accum_in_mem.bound

InFlight == { i \in DOMAIN tasks : tasks[i].status = "submitted" }

\* failures reported so far
NumFailed ==
    Cardinality({ i \in DOMAIN tasks : tasks[i].status \in { "failed", "split" } })

\* values of executor.dynamic_chunksize
NoTargets ==
    [ none |-> TRUE, keys |-> { }, value |-> [ k \in ResourceNames |-> 1 ] ]
Targets(keys) ==
    [ none |-> FALSE, keys |-> keys, value |-> [ k \in ResourceNames |-> 1 ] ]

\* the executor's options at the call of work_queue_main: no dynamic sizing,
\* both known targets, or a target that is not known
Init ==
    /\ executor \in [ retries : 0..MaxRetries,
                      split_on_exhaustion : BOOLEAN,
                      dynamic_chunksize : { NoTargets,
                                            Targets({ "wall_time", "memory" }),
                                            Targets({ "memory", "cores" }) },
                      chunksize : 1..MaxChunksize,
                      chunks_per_accum : 1..MaxChunksPerAccum,
                      chunks_accum_in_mem : 1..MaxChunksAccumInMem,
                      events_total : { ItemsTotal } ]
    /\ tasks = << >>
    /\ tasks_to_accumulate = << >>
    /\ items_submitted = 0
    /\ items_done = 0
    /\ chunksize = executor.chunksize
    /\ update_chunksize = FALSE
    /\ current_chunksize = executor.chunksize
    /\ early_terminate = FALSE
    /\ merged = << >>
    /\ frame = NotCalled
    /\ outputs = NoOutputs
    /\ last = [ op |-> "init", task |-> 0, before |-> 0 ]
    /\ pc = "start"

\* work_queue_main up to the call of _work_queue_processing: the targets of
\* dynamic sizing are checked, nothing else of the configuration is
work_queue_main ==
    /\ pc = "start"
    /\ pc' = IF _check_dynamic_chunksize_targets(executor.dynamic_chunksize)
             THEN "failed" ELSE "loop"
    /\ last' = [ op |-> "main", task |-> 0, before |-> Len(tasks) ]
    /\ UNCHANGED << executor, frame, outputs, tasks, tasks_to_accumulate,
                    items_submitted, items_done, chunksize, update_chunksize,
                    current_chunksize, early_terminate, merged >>

\* mutation of LoopCondition: the loop waits for every task ever submitted
\* to be done, the failed ones included
LoopCondition_AnyUnfinished ==
    \/ ~early_terminate /\ items_done < executor.events_total
    \/ \E i \in DOMAIN tasks : tasks[i].status # "done"

\* mutation of LoopCondition: the backend is not asked whether it is empty
LoopCondition_NoDrain ==
    ~early_terminate /\ items_done < executor.events_total

\* the while condition of the main loop
LoopCondition ==
    \/ ~early_terminate /\ items_done < executor.events_total
    \/ InFlight # { }

\* top of an iteration: recompute and sample the chunksize when dynamic
LoopEnter ==
    /\ pc = "loop"
    /\ LoopCondition
    /\ update_chunksize' = (items_submitted > 0 /\ Truthy(executor.dynamic_chunksize))
    /\ IF update_chunksize'
       THEN \E c \in ComputedChunksizes :
               IF c.raised
               THEN chunksize' = chunksize /\ pc' = "failed"
               ELSE chunksize' \in _sample_chunksize(c.chunksize) /\ pc' = "submitting"
       ELSE chunksize' = chunksize /\ pc' = "submitting"
    /\ last' = [ op |-> "enter", task |-> 0, before |-> Len(tasks) ]
    /\ UNCHANGED << executor, frame, outputs, tasks, tasks_to_accumulate, items_submitted,
                    items_done, current_chunksize, early_terminate, merged >>

LoopExit ==
    /\ pc = "loop"
    /\ ~LoopCondition
    /\ pc' = "final"
    /\ last' = [ op |-> "exit", task |-> 0, before |-> Len(tasks) ]
    /\ UNCHANGED << executor, frame, outputs, tasks, tasks_to_accumulate, items_submitted,
                    items_done, chunksize, update_chunksize, current_chunksize,
                    early_terminate, merged >>

\* the work item source: the next contiguous slice of the requested size
NextItem(size) ==
    << items_submitted, Min(items_submitted + size, executor.events_total) >>

\* _submit_proc_task, while the backend is hungry
SubmitProc ==
    /\ pc = "submitting"
    /\ items_submitted < executor.events_total
    /\ ~early_terminate
    /\ LET item == NextItem(chunksize)
           task == ProcCoffeaWQTask(item[1], item[2], Len(tasks))
       IN  /\ tasks' = Append(tasks, task)
           /\ items_submitted' = items_submitted + task.size
    /\ current_chunksize' = IF update_chunksize THEN chunksize ELSE current_chunksize
    /\ last' = [ op |-> "submit", task |-> Len(tasks) + 1, before |-> Len(tasks) ]
    /\ UNCHANGED << executor, frame, outputs, tasks_to_accumulate, items_done, chunksize,
                    update_chunksize, early_terminate, merged, pc >>

\* queue.wait(5) returns None
WaitTimeout ==
    /\ pc = "submitting"
    /\ pc' = "loop"
    /\ last' = [ op |-> "timeout", task |-> 0, before |-> Len(tasks) ]
    /\ UNCHANGED << executor, frame, outputs, tasks, tasks_to_accumulate, items_submitted,
                    items_done, chunksize, update_chunksize, current_chunksize,
                    early_terminate, merged >>

\* the failure branch of the loop (lines 769-770) for task i: task.resubmit
HandleFailure(i, reason) ==
    /\ pc = "submitting"
    /\ i \in InFlight
    /\ LET t == [ tasks[i] EXCEPT !.result = reason ]
           r == resubmit(tasks, t)
       IN  IF r.raised
           THEN /\ tasks' = [ tasks EXCEPT ![i] = [ t EXCEPT !.status = "failed" ] ]
                /\ pc' = "failed"
           ELSE /\ tasks' = [ tasks EXCEPT ![i] =
                                [ t EXCEPT !.status =
                                    IF reason = "exhaustion" THEN "split" ELSE "failed" ] ]
                              \o r.resubmissions
                /\ pc' = "loop"
    /\ last' = [ op |-> "resubmit", task |-> i, before |-> Len(tasks) ]
    /\ UNCHANGED << executor, frame, outputs, tasks_to_accumulate, items_submitted, items_done,
                    chunksize, update_chunksize, current_chunksize,
                    early_terminate, merged >>

\* queue.wait(5) returns task i, failed; at most MaxFailures failures a run
WaitFailure(i, reason) ==
    /\ NumFailed < MaxFailures
    /\ HandleFailure(i, reason)

\* mutation of WaitSuccess: the result of a processing task that reports
\* after the request of early termination is thrown away
WaitSuccess_DropLate(i, fout) ==
    /\ pc = "submitting"
    /\ i \in InFlight
    /\ LET t == [ tasks[i] EXCEPT !.result = "ok", !.status = "done",
                                  !.fout_size = fout ]
           ts == [ tasks EXCEPT ![i] = t ]
           late == early_terminate /\ t.category = "processing"
           done == IF t.category = "processing" /\ ~late THEN items_done + t.size
                   ELSE items_done
           force_last_accum == done >= executor.events_total \/ early_terminate
           r == _submit_accum_tasks(ts, IF late THEN tasks_to_accumulate
                                        ELSE Append(tasks_to_accumulate, i),
                                    force_last_accum)
           out == StageOutput(outputs, t, TRUE)
           raises == RemoveRaises(out, ts, t.tasks_to_accumulate)
       IN  /\ InputsLoadable(t)
           /\ items_done' = done
           /\ tasks' = r.tasks
           /\ tasks_to_accumulate' = r.pending
           /\ outputs' = IF r.raised \/ raises THEN out
                         ELSE cleanup_outputs(out, ts, t.tasks_to_accumulate)
           /\ pc' = IF r.raised \/ raises THEN "failed" ELSE "loop"
    /\ last' = [ op |-> "success", task |-> i, before |-> Len(tasks) ]
    /\ UNCHANGED << executor, frame, items_submitted, chunksize,
                    update_chunksize, current_chunksize, early_terminate, merged >>

\* the else branch of the loop (lines 771-811) for task i, which
\* task.successful() accepts, with an output of size fout that can be loaded
\* or not; task.cleanup_inputs() removes the outputs of the inputs of an
\* accumulation task
HandleSuccess(i, fout, loadable) ==
    /\ pc = "submitting"
    /\ i \in InFlight
    /\ LET t == [ tasks[i] EXCEPT !.result = "ok", !.status = "done",
                                  !.fout_size = fout ]
           ts == [ tasks EXCEPT ![i] = t ]
           done == IF t.category = "processing" THEN items_done + t.size
                   ELSE items_done
           force_last_accum == done >= executor.events_total \/ early_terminate
           r == _submit_accum_tasks(ts, Append(tasks_to_accumulate, i),
                                    force_last_accum)
           out == StageOutput(outputs, t, loadable)
           raises == RemoveRaises(out, ts, t.tasks_to_accumulate)
       IN  /\ InputsLoadable(t)
           /\ items_done' = done
           /\ tasks' = r.tasks
           /\ tasks_to_accumulate' = r.pending
           /\ outputs' = IF r.raised \/ raises THEN out
                         ELSE cleanup_outputs(out, ts, t.tasks_to_accumulate)
           /\ pc' = IF r.raised \/ raises THEN "failed" ELSE "loop"
    /\ last' = [ op |-> "success", task |-> i, before |-> Len(tasks) ]
    /\ UNCHANGED << executor, frame, items_submitted, chunksize, update_chunksize,
                    current_chunksize, early_terminate, merged >>

\* queue.wait(5) returns task i, successful, with an output of size fout
WaitSuccess(i, fout) == HandleSuccess(i, fout, TRUE)

\* queue.wait(5) returns task i with result 0 and return status 0, and an
\* output file from which no result can be loaded (task.output would be
\* ResultUnavailable)
WaitUnavailable(i, fout) == HandleSuccess(i, fout, FALSE)

\* mutation of EarlyTerminate: every task in flight is cancelled
EarlyTerminate_CancelAll(late) ==
    /\ pc \in { "loop", "submitting" }
    /\ ~early_terminate
    /\ early_terminate' = TRUE
    /\ tasks' = [ i \in DOMAIN tasks |->
                    IF tasks[i].status = "submitted" /\ i \notin late
                    THEN [ tasks[i] EXCEPT !.status = "cancelled" ]
                    ELSE tasks[i] ]
    /\ last' = [ op |-> "early_terminate", task |-> 0, before |-> Len(tasks) ]
    /\ UNCHANGED << executor, frame, outputs, tasks_to_accumulate, items_submitted, items_done,
                    chunksize, update_chunksize, current_chunksize, merged, pc >>

\* _handle_early_terminate, first signal: the backend drops the cancelled
\* processing tasks, except those (late) it had already finished.
EarlyTerminate(late) ==
    /\ pc \in { "loop", "submitting" }
    /\ ~early_terminate
    /\ early_terminate' = TRUE
    /\ tasks' = [ i \in DOMAIN tasks |->
                    IF /\ tasks[i].status = "submitted"
                       /\ tasks[i].category = "processing"
                       /\ i \notin late
                    THEN [ tasks[i] EXCEPT !.status = "cancelled" ]
                    ELSE tasks[i] ]
    /\ last' = [ op |-> "early_terminate", task |-> 0, before |-> Len(tasks) ]
    /\ UNCHANGED << executor, frame, outputs, tasks_to_accumulate, items_submitted, items_done,
                    chunksize, update_chunksize, current_chunksize, merged, pc >>

\* _handle_early_terminate, second signal: KeyboardInterrupt
Interrupt ==
    /\ pc \in { "loop", "submitting" }
    /\ early_terminate
    /\ pc' = "interrupted"
    /\ last' = [ op |-> "interrupt", task |-> 0, before |-> Len(tasks) ]
    /\ UNCHANGED << executor, frame, outputs, tasks, tasks_to_accumulate, items_submitted,
                    items_done, chunksize, update_chunksize, current_chunksize,
                    early_terminate, merged >>

\* mutation of _final_accumulation: more than one pending result is an error
_final_accumulation_Strict ==
    /\ pc = "final"
    /\ IF \/ Len(tasks_to_accumulate) # 1
          \/ OutputsOf(tasks, tasks_to_accumulate) \cap outputs.unloadable # { }
          \/ RemoveRaises(outputs, tasks, tasks_to_accumulate)
       THEN /\ pc' = "failed"
            /\ merged' = merged
            /\ outputs' = outputs
       ELSE /\ pc' = "done"
            /\ merged' = tasks_to_accumulate
            /\ outputs' = cleanup_outputs(outputs, tasks, tasks_to_accumulate)
    /\ last' = [ op |-> "final", task |-> 0, before |-> Len(tasks) ]
    /\ UNCHANGED << executor, frame, tasks, tasks_to_accumulate,
                    items_submitted, items_done, chunksize, update_chunksize,
                    current_chunksize, early_terminate >>

\* _final_accumulation: local merge of whatever is pending (the load of a
\* file that cannot be read raises), then cleanup_outputs of each
_final_accumulation ==
    /\ pc = "final"
    /\ IF \/ Len(tasks_to_accumulate) < 1
          \/ OutputsOf(tasks, tasks_to_accumulate) \cap outputs.unloadable # { }
          \/ RemoveRaises(outputs, tasks, tasks_to_accumulate)
       THEN /\ pc' = "failed"
            /\ merged' = merged
            /\ outputs' = outputs
       ELSE /\ pc' = "done"
            /\ merged' = tasks_to_accumulate
            /\ outputs' = cleanup_outputs(outputs, tasks, tasks_to_accumulate)
    /\ last' = [ op |-> "final", task |-> 0, before |-> Len(tasks) ]
    /\ UNCHANGED << executor, frame, tasks, tasks_to_accumulate, items_submitted,
                    items_done, chunksize, update_chunksize, current_chunksize,
                    early_terminate >>

Wait ==
    \E i \in DOMAIN tasks :
        \/ \E fout \in 0..MaxFout : WaitSuccess(i, fout)
        \/ \E reason \in { "exhaustion", "other" } : WaitFailure(i, reason)

Signal ==
    \/ \E late \in SUBSET { i \in InFlight : tasks[i].category = "processing" } :
          EarlyTerminate(late)
    \/ Interrupt

Next ==
    \/ work_queue_main
    \/ LoopEnter
    \/ LoopExit
    \/ SubmitProc
    \/ WaitTimeout
    \/ Wait
    \/ Signal
    \/ _final_accumulation

Spec == Init /\ [][Next]_vars

\* ------------------------------------------------- resubmission policy alone
\* The failure handler applied to one unit in flight, for every unit size,
\* number of retries already consumed, configuration and adaptive chunk size.
\* (unit size, adaptive chunk size) pairs: all the small ones, and the
\* scenario of a unit of 200 events with an adaptive size of 50
SplitInputs ==
    ((1..MaxSplitTotal) \X (1..MaxSplitTarget)) \cup { << 200, 50 >> }

\* the attempts at one unit: k failed attempts, each followed by its retry
\* clone; the last clone is in flight
Attempts(unit, k) ==
    [ j \in 1..(k + 1) |->
        [ unit EXCEPT !.retries_to_go = executor.retries - (j - 1),
                      !.status = IF j <= k THEN "failed" ELSE "submitted",
                      !.result = IF j <= k THEN "other" ELSE "none" ] ]

\* two successful one-event processing tasks, inputs of an accumulation task
TwoResults ==
    << [ ProcCoffeaWQTask(0, 1, 0) EXCEPT !.status = "done", !.result = "ok" ],
       [ ProcCoffeaWQTask(1, 2, 1) EXCEPT !.status = "done", !.result = "ok" ] >>

InitPolicy ==
    /\ \E inp \in SplitInputs,
          category \in { "processing", "accumulating", "preprocessing" } :
       LET total == inp[1] IN
         /\ category = "accumulating" => inp = << 2, 1 >>
         /\ category = "preprocessing" => inp = << 1, 1 >>
         /\ current_chunksize = inp[2]
         /\ executor \in [ retries : 0..MaxRetries,
                           split_on_exhaustion : BOOLEAN,
                           dynamic_chunksize : { Targets({ "wall_time", "memory" }) },
                           chunksize : { IF category = "processing" THEN total ELSE 1 },
                           chunks_per_accum : { 2 },
                           chunks_accum_in_mem : { 2 },
                           events_total : { total } ]
         /\ \E k \in 0..(IF executor.split_on_exhaustion THEN executor.retries ELSE 0) :
              tasks = IF category = "processing"
                      THEN Attempts(ProcCoffeaWQTask(0, total, 0), k)
                      ELSE IF category = "preprocessing"
                      THEN Attempts(PreProcCoffeaWQTask(0, 0), k)
                      ELSE TwoResults
                           \o [ j \in 1..(k + 1) |->
                                  [ Attempts(AccumCoffeaWQTask(TwoResults, << 1, 2 >>, 0), k)[j]
                                      EXCEPT !.itemid = j + 1,
                                             !.chunks_accum_in_mem =
                                                 IF j = 1 THEN @
                                                 ELSE [ bound |-> FALSE, value |-> j ] ] ]
         /\ items_submitted = total
         /\ items_done = IF category = "accumulating" THEN total ELSE 0
    /\ chunksize = current_chunksize
    /\ tasks_to_accumulate = << >>
    /\ update_chunksize = TRUE
    /\ early_terminate = FALSE
    /\ merged = << >>
    /\ frame = NotCalled
    /\ outputs = OutputsOnDisk(tasks)
    /\ last = [ op |-> "init", task |-> 0, before |-> 0 ]
    /\ pc = "submitting"

NextPolicy ==
    \E i \in DOMAIN tasks, reason \in { "exhaustion", "other" } : WaitFailure(i, reason)

PolicySpec == InitPolicy /\ [][NextPolicy]_vars

\* ------------------------------------------------ accumulation scheduler alone
\* The success handler applied to one processing task in flight, for every
\* pending list the loop can hold at that point: k results below the emission
\* threshold, of every output size, with or without more work outstanding,
\* before or after a request of early termination.
PendingResults(k, fouts, inflight) ==
    [ j \in 1..(k + inflight) |->
        IF j <= k
        THEN [ ProcCoffeaWQTask(j - 1, j, j - 1)
                 EXCEPT !.status = "done", !.result = "ok", !.fout_size = fouts[j] ]
        ELSE ProcCoffeaWQTask(j - 1, j, j - 1) ]

InitScheduler ==
    /\ \E cpa \in 2..MaxGroupSize, inflight \in 1..2 :
         \E k \in 0..(2 * cpa - 2) :
           \E fouts \in [ 1..k -> 0..MaxFout ] :
             /\ executor = [ retries |-> 0,
                             split_on_exhaustion |-> TRUE,
                             dynamic_chunksize |-> NoTargets,
                             chunksize |-> 1,
                             chunks_per_accum |-> cpa,
                             chunks_accum_in_mem |-> 2,
                             events_total |-> k + inflight ]
             /\ tasks = PendingResults(k, fouts, inflight)
             /\ tasks_to_accumulate = [ j \in 1..k |-> j ]
             /\ items_submitted = k + inflight
             /\ items_done = k
             /\ early_terminate \in BOOLEAN
    /\ chunksize = 1
    /\ current_chunksize = 1
    /\ update_chunksize = FALSE
    /\ merged = << >>
    /\ frame = NotCalled
    /\ outputs = OutputsOnDisk(tasks)
    /\ last = [ op |-> "init", task |-> 0, before |-> 0 ]
    /\ pc = "submitting"

NextScheduler ==
    \E i \in DOMAIN tasks, fout \in 0..MaxFout : WaitSuccess(i, fout)

SchedulerSpec == InitScheduler /\ [][NextScheduler]_vars

\* ------------------------------------------------ unavailable results
\* The success handler from the states of the scheduler specification, when
\* the output of a task that ended with result 0 and return status 0 may be
\* a file from which no result can be loaded.
NextUnavailable ==
    \E i \in DOMAIN tasks, fout \in 0..MaxFout :
        \/ WaitSuccess(i, fout)
        \/ WaitUnavailable(i, fout)

UnavailableSpec == InitScheduler /\ [][NextUnavailable]_vars

\* ------------------------------------------------------ the loop, fair
\* The main loop without signals, with every failure the retry budget lets
\* happen (no cap on their number), chunks of a fixed size. The program takes
\* its steps (weak fairness). The backend resolves every submitted task: a
\* completion stays possible until queue.wait returns the task, and
\* queue.wait is called again at every iteration, so that in this model,
\* where a completion is the step of queue.wait that returns it, a
\* completion possible again and again must happen (strong fairness); the
\* same holds of a submission, made whenever the backend is hungry, which it
\* is when nothing is in flight.
InitFair ==
    /\ executor \in [ retries : 0..FairRetries,
                      split_on_exhaustion : BOOLEAN,
                      dynamic_chunksize : { NoTargets },
                      chunksize : 1..FairItems,
                      chunks_per_accum : { 2 },
                      chunks_accum_in_mem : { 2 },
                      events_total : { FairItems } ]
    /\ tasks = << >>
    /\ tasks_to_accumulate = << >>
    /\ items_submitted = 0
    /\ items_done = 0
    /\ chunksize = executor.chunksize
    /\ update_chunksize = FALSE
    /\ current_chunksize = executor.chunksize
    /\ early_terminate = FALSE
    /\ merged = << >>
    /\ frame = NotCalled
    /\ outputs = NoOutputs
    /\ last = [ op |-> "init", task |-> 0, before |-> 0 ]
    /\ pc = "start"

Resolve ==
    \E i \in DOMAIN tasks :
        \/ \E fout \in 0..MaxFout : WaitSuccess(i, fout)
        \/ \E reason \in { "exhaustion", "other" } : HandleFailure(i, reason)

NextFair ==
    \/ work_queue_main
    \/ LoopEnter
    \/ LoopExit
    \/ SubmitProc
    \/ WaitTimeout
    \/ Resolve
    \/ _final_accumulation

FairSpec ==
    /\ InitFair
    /\ [][NextFair]_vars
    /\ WF_vars(work_queue_main)
    /\ WF_vars(LoopEnter)
    /\ WF_vars(LoopExit)
    /\ WF_vars(_final_accumulation)
    /\ SF_vars(SubmitProc)
    /\ SF_vars(Resolve)

\* ---------------------------------------------------- end-to-end scenario
\* 10 work items of 100 events each, chunks_per_accum = 3,
\* chunks_accum_in_mem = 2, no failure and no signal: the loop from its first
\* iteration, under every order of submissions and completions. The
\* processing tasks of the scenario are alike (100 events each, outputs of
\* one size), so that a run is a renaming of one in which they complete in
\* the order of their submission: these are the runs taken, with every
\* interleaving with submissions and with the accumulation tasks, whose
\* outputs are of every size.
FirstInFlight(i) ==
    tasks[i].category = "processing" =>
        \A j \in InFlight : tasks[j].category = "processing" => i <= j

InitScenario ==
    /\ executor = [ retries |-> 0,
                    split_on_exhaustion |-> TRUE,
                    dynamic_chunksize |-> NoTargets,
                    chunksize |-> 100,
                    chunks_per_accum |-> 3,
                    chunks_accum_in_mem |-> 2,
                    events_total |-> 1000 ]
    /\ tasks = << >>
    /\ tasks_to_accumulate = << >>
    /\ items_submitted = 0
    /\ items_done = 0
    /\ chunksize = executor.chunksize
    /\ update_chunksize = FALSE
    /\ current_chunksize = executor.chunksize
    /\ early_terminate = FALSE
    /\ merged = << >>
    /\ frame = NotCalled
    /\ outputs = NoOutputs
    /\ last = [ op |-> "main", task |-> 0, before |-> 0 ]
    /\ pc = "loop"

NextScenario ==
    \/ LoopEnter
    \/ LoopExit
    \/ SubmitProc
    \/ WaitTimeout
    \/ \E i \in DOMAIN tasks, fout \in 0..MaxFout :
          /\ FirstInFlight(i)
          /\ tasks[i].category = "processing" => fout = 0
          /\ WaitSuccess(i, fout)
    \/ _final_accumulation

ScenarioSpec == InitScenario /\ [][NextScenario]_vars

\* --------------------------------------------------------- estimator alone
\* _compute_chunksize and _sample_chunksize applied as at the top of an
\* iteration, for every base chunk size, every value of dynamic_chunksize
\* (None, or a dictionary over wall_time and memory with targets 0 or 1) and
\* every number of reports.
TargetChoices ==
    { NoTargets }
    \cup { [ none |-> FALSE, keys |-> K, value |-> v ] :
             K \in SUBSET { "wall_time", "memory" },
             v \in [ ResourceNames -> 0..1 ] }

InitEstimator ==
    /\ \E k \in 0..MaxReports :
         /\ executor \in [ retries : { 0 },
                           split_on_exhaustion : { TRUE },
                           dynamic_chunksize : TargetChoices,
                           chunksize : 1..MaxBase,
                           chunks_per_accum : { 2 },
                           chunks_accum_in_mem : { 2 },
                           events_total : { MaxReports + 1 } ]
         /\ tasks = PendingResults(k, [ j \in 1..k |-> 0 ], 0)
         /\ tasks_to_accumulate = [ j \in 1..k |-> j ]
         /\ items_submitted = k
         /\ items_done = k
    /\ chunksize = executor.chunksize
    /\ current_chunksize = executor.chunksize
    /\ update_chunksize = FALSE
    /\ early_terminate = FALSE
    /\ merged = << >>
    /\ frame = NotCalled
    /\ outputs = OutputsOnDisk(tasks)
    /\ last = [ op |-> "init", task |-> 0, before |-> 0 ]
    /\ pc = "estimating"

\* chunksize = _compute_chunksize(executor.chunksize,
\*                                executor.dynamic_chunksize, task_reports)
Estimate ==
    /\ pc = "estimating"
    /\ \E c \in ComputedChunksizes :
          IF c.raised
          THEN chunksize' = chunksize /\ pc' = "failed"
          ELSE chunksize' = c.chunksize /\ pc' = "estimated"
    /\ last' = [ op |-> "estimate", task |-> 0, before |-> Len(tasks) ]
    /\ UNCHANGED << executor, frame, outputs, tasks, tasks_to_accumulate, items_submitted,
                    items_done, update_chunksize, current_chunksize,
                    early_terminate, merged >>

\* chunksize = _sample_chunksize(chunksize)
Sample ==
    /\ pc = "estimated"
    /\ chunksize' \in _sample_chunksize(chunksize)
    /\ pc' = "sampled"
    /\ last' = [ op |-> "sample", task |-> 0, before |-> Len(tasks) ]
    /\ UNCHANGED << executor, frame, outputs, tasks, tasks_to_accumulate, items_submitted,
                    items_done, update_chunksize, current_chunksize,
                    early_terminate, merged >>

NextEstimator == Estimate \/ Sample

EstimatorSpec == InitEstimator /\ [][NextEstimator]_vars

\* ---------------------------------------------------------- flooring alone
\* The value floored at line 1214 is a Python float when it comes from
\* _compute_chunksize_target (slope * target + intercept). The floats taken
\* here are the integers n and, for each, the largest double below it
\* (below = TRUE), e.g. 1024 / 49 * 49 = 1023.9999999999999.
Doubles == [ n : (-1)..MaxValue, below : BOOLEAN ]

\* value < 1 (line 1173)
LessThanOne(x) == x.n < 1 \/ (x.n = 1 /\ x.below)

\* the largest k with 2^k <= n, for n >= 1
RECURSIVE ExactFloorLog2(_)
ExactFloorLog2(n) == IF n < 2 THEN 0 ELSE 1 + ExactFloorLog2(n \div 2)

\* math.floor(math.log2(value)) for value >= 1 (line 1175). math.log2 returns
\* the double nearest to the logarithm: it is exact on a power of two, and
\* for the largest double below 2^k it is k itself as soon as k >= 3 (the
\* logarithm is k - 1.6e-16, nearer to k than to the double before k), and
\* the double before k for k = 1, 2.
math_floor_log2(x) ==
    LET k == ExactFloorLog2(x.n)
    IN  IF x.below /\ x.n = 2 ^ k /\ k < 3 THEN k - 1 ELSE k

\* _floor_to_pow2 on a double
_floor_to_pow2_double(x) ==
    IF LessThanOne(x) THEN 1 ELSE 2 ^ math_floor_log2(x)

InitFloor ==
    /\ executor \in [ retries : { 0 },
                      split_on_exhaustion : { TRUE },
                      dynamic_chunksize : { Targets({ "wall_time", "memory" }) },
                      chunksize : { 1 },
                      chunks_per_accum : { 2 },
                      chunks_accum_in_mem : { 2 },
                      events_total : { 1 } ]
    /\ tasks = << >>
    /\ tasks_to_accumulate = << >>
    /\ items_submitted = 0
    /\ items_done = 0
    /\ chunksize \in Doubles
    /\ current_chunksize = 1
    /\ update_chunksize = TRUE
    /\ early_terminate = FALSE
    /\ merged = << >>
    /\ frame = NotCalled
    /\ outputs = NoOutputs
    /\ last = [ op |-> "init", task |-> 0, before |-> 0 ]
    /\ pc = "flooring"

\* chunksize = int(_floor_to_pow2(chunksize)); last.before keeps the value
\* that was floored
Floor ==
    /\ pc = "flooring"
    /\ chunksize' = _floor_to_pow2_double(chunksize)
    /\ pc' = "floored"
    /\ last' = [ op |-> "floor", task |-> 0, before |-> chunksize ]
    /\ UNCHANGED << executor, frame, outputs, tasks, tasks_to_accumulate, items_submitted,
                    items_done, update_chunksize, current_chunksize,
                    early_terminate, merged >>

NextFloor == Floor

FloorSpec == InitFloor /\ [][NextFloor]_vars

\* -------------------------------------------- accumulate_result_files alone
\* The merge routine, one file at a time, for every number of files, every
\* chunks_accum_in_mem >= 2, with and without an initial accumulator. A file
\* is named by a number; frame.accumulator lists the files merged into the
\* accumulator so far, frame.in_memory the results loaded and not yet merged.
\* Results are truthy.
InitMerge ==
    /\ \E caim \in 2..MaxInMem, n \in 0..MaxFiles, initial \in BOOLEAN :
         /\ executor = [ retries |-> 0,
                         split_on_exhaustion |-> TRUE,
                         dynamic_chunksize |-> NoTargets,
                         chunksize |-> 1,
                         chunks_per_accum |-> 2,
                         chunks_accum_in_mem |-> caim,
                         events_total |-> n ]
         /\ frame = [ chunks_accum_in_mem |-> caim,
                      files_to_accumulate |-> [ k \in 1..n |-> k ],
                      accumulator |-> << >>,
                      initial |-> initial,
                      in_memory |-> << >> ]
    /\ tasks = << >>
    /\ tasks_to_accumulate = << >>
    /\ items_submitted = 0
    /\ items_done = 0
    /\ chunksize = 1
    /\ current_chunksize = 1
    /\ update_chunksize = FALSE
    /\ early_terminate = FALSE
    /\ merged = << >>
    /\ outputs = NoOutputs
    /\ last = [ op |-> "init", task |-> 0, before |-> 0 ]
    /\ pc = "merging"

\* "not accumulator" (line 58)
NoAccumulator == ~frame.initial /\ frame.accumulator = << >>

\* mutation of LoadResult: chunks_accum_in_mem is not lowered to the number of
\* files left
LoadResult_NoShrink ==
    /\ pc = "merging"
    /\ frame.files_to_accumulate # << >>
    /\ LET n == Len(frame.files_to_accumulate)
           f == frame.files_to_accumulate[n]
           rest == SubSeq(frame.files_to_accumulate, 1, n - 1)
       IN  IF NoAccumulator
           THEN /\ frame' = [ frame EXCEPT !.files_to_accumulate = rest,
                                           !.accumulator = << f >> ]
                /\ pc' = "merging"
           ELSE /\ frame' = [ frame EXCEPT !.files_to_accumulate = rest,
                                           !.in_memory = Append(@, f) ]
                /\ pc' = "loaded"
    /\ last' = [ op |-> "load", task |-> 0, before |-> Len(frame.in_memory) ]
    /\ UNCHANGED << executor, outputs, tasks, tasks_to_accumulate, items_submitted,
                    items_done, chunksize, update_chunksize, current_chunksize,
                    early_terminate, merged >>

\* lines 48-62: pop a file, lower chunks_accum_in_mem to the number of files
\* left, load the result; it becomes the accumulator when there is none,
\* and is appended to in_memory otherwise
LoadResult ==
    /\ pc = "merging"
    /\ frame.files_to_accumulate # << >>
    /\ LET n == Len(frame.files_to_accumulate)
           f == frame.files_to_accumulate[n]
           rest == SubSeq(frame.files_to_accumulate, 1, n - 1)
           caim == Min(frame.chunks_accum_in_mem, Len(rest))
       IN  IF NoAccumulator
           THEN /\ frame' = [ frame EXCEPT !.files_to_accumulate = rest,
                                           !.chunks_accum_in_mem = caim,
                                           !.accumulator = << f >> ]
                /\ pc' = "merging"
           ELSE /\ frame' = [ frame EXCEPT !.files_to_accumulate = rest,
                                           !.chunks_accum_in_mem = caim,
                                           !.in_memory = Append(@, f) ]
                /\ pc' = "loaded"
    /\ last' = [ op |-> "load", task |-> 0, before |-> Len(frame.in_memory) ]
    /\ UNCHANGED << executor, outputs, tasks, tasks_to_accumulate, items_submitted,
                    items_done, chunksize, update_chunksize, current_chunksize,
                    early_terminate, merged >>

\* mutation of AccumulateInMemory: the buffer is merged one result later
AccumulateInMemory_Late ==
    /\ pc = "loaded"
    /\ frame' = IF Len(frame.in_memory) > frame.chunks_accum_in_mem
                THEN [ frame EXCEPT !.accumulator = @ \o frame.in_memory,
                                    !.in_memory = << >> ]
                ELSE frame
    /\ pc' = "merging"
    /\ last' = [ op |-> "accumulate", task |-> 0, before |-> Len(frame.in_memory) ]
    /\ UNCHANGED << executor, outputs, tasks, tasks_to_accumulate, items_submitted,
                    items_done, chunksize, update_chunksize, current_chunksize,
                    early_terminate, merged >>

\* lines 63-67: merge in_memory into the accumulator and empty it, when it
\* holds more than chunks_accum_in_mem - 1 results
AccumulateInMemory ==
    /\ pc = "loaded"
    /\ frame' = IF Len(frame.in_memory) > frame.chunks_accum_in_mem - 1
                THEN [ frame EXCEPT !.accumulator = @ \o frame.in_memory,
                                    !.in_memory = << >> ]
                ELSE frame
    /\ pc' = "merging"
    /\ last' = [ op |-> "accumulate", task |-> 0, before |-> Len(frame.in_memory) ]
    /\ UNCHANGED << executor, outputs, tasks, tasks_to_accumulate, items_submitted,
                    items_done, chunksize, update_chunksize, current_chunksize,
                    early_terminate, merged >>

\* line 68: return accumulator
ReturnAccumulator ==
    /\ pc = "merging"
    /\ frame.files_to_accumulate = << >>
    /\ merged' = frame.accumulator
    /\ pc' = "returned"
    /\ last' = [ op |-> "return", task |-> 0, before |-> Len(frame.in_memory) ]
    /\ UNCHANGED << executor, frame, outputs, tasks, tasks_to_accumulate,
                    items_submitted, items_done, chunksize, update_chunksize,
                    current_chunksize, early_terminate >>

NextMerge == LoadResult \/ AccumulateInMemory \/ ReturnAccumulator

MergeSpec == InitMerge /\ [][NextMerge]_vars

\* ------------------------------------------------------------ vocabulary
\* the last step was the failure handler (task.resubmit) on task last.task
ResubmitStep == last.op = "resubmit"
Parent == tasks[last.task]
\* the tasks constructed and submitted by the last step
NewIds == (last.before + 1)..Len(tasks)
Raised == pc = "failed"
SplitStep == ResubmitStep /\ Parent.status = "split"

Events(t) == t.entrystart..(t.entrystop - 1)
IsProc(i) == tasks[i].category = "processing"
IsAccum(i) == tasks[i].category = "accumulating"
Occurrences(seq, x) == Cardinality({ k \in DOMAIN seq : seq[k] = x })

\* ====================================================================== C1
DoneAccums == { a \in DOMAIN tasks : IsAccum(a) /\ tasks[a].status = "done" }

\* how many times the result of task i was merged: as an input of a
\* successful accumulation task, or by the final local reduction
TimesMerged(i) ==
    Cardinality({ u \in DoneAccums \X (1..Len(tasks)) :
                    /\ u[2] \in DOMAIN tasks[u[1]].tasks_to_accumulate
                    /\ tasks[u[1]].tasks_to_accumulate[u[2]] = i })
    + Occurrences(merged, i)

\* how many times the result of processing task p is part of the output of task i
RECURSIVE LeafCount(_, _)
LeafCount(p, i) ==
    IF IsProc(i) THEN (IF i = p THEN 1 ELSE 0)
    ELSE SumSeq([ k \in DOMAIN tasks[i].tasks_to_accumulate |->
                    LeafCount(p, tasks[i].tasks_to_accumulate[k]) ])

\* ... and of the accumulator returned by the final reduction
FinalCount(p) == SumSeq([ k \in DOMAIN merged |-> LeafCount(p, merged[k]) ])

\* C1: when the loop has returned without a fatal error, every successful
\* result (processing or accumulation output) was merged exactly once, by one
\* successful accumulation task or by the final reduction, and the returned
\* accumulator holds every successful processing result exactly once and
\* nothing else.
C1_MergedExactlyOnce ==
    pc = "done" =>
        /\ \A i \in DOMAIN tasks : tasks[i].status = "done" => TimesMerged(i) = 1
        /\ \A p \in DOMAIN tasks :
              IsProc(p) => FinalCount(p) = (IF tasks[p].status = "done" THEN 1 ELSE 0)

\* a finished run with a retry, a split and a remote accumulation behind it
C1_Witness ==
    /\ pc = "done"
    /\ \E i \in DOMAIN tasks : tasks[i].status = "split"
    /\ \E i \in DOMAIN tasks : tasks[i].status = "failed"
    /\ DoneAccums # { }
    /\ Len(merged) = 1

\* ====================================================================== C2
Active == { i \in DOMAIN tasks :
              IsProc(i) /\ tasks[i].status \in { "submitted", "done" } }
Pulled == 0..(items_submitted - 1)
Covered == UNION { Events(tasks[i]) : i \in Active }
Disjoint ==
    \A i, j \in Active : i # j => Events(tasks[i]) \cap Events(tasks[j]) = { }
Running == pc \notin { "failed", "interrupted" }

\* a split's children cover exactly the parent's range, consecutively
SplitCoversParent ==
    SplitStep =>
        /\ NewIds # { }
        /\ tasks[last.before + 1].entrystart = Parent.entrystart
        /\ tasks[Len(tasks)].entrystop = Parent.entrystop
        /\ \A n \in NewIds :
              /\ IsProc(n)
              /\ tasks[n].entrystart < tasks[n].entrystop
              /\ n < Len(tasks) => tasks[n + 1].entrystart = tasks[n].entrystop

\* C2 as stated: at every point of a run that has not raised, the ranges of
\* the active processing tasks are pairwise disjoint and their union is the
\* union of the ranges pulled from the source.
C2_Original == Running => (Disjoint /\ Covered = Pulled)

\* C2 amended: the active ranges are always disjoint and within the pulled
\* ranges; they cover them exactly as long as early termination has not been
\* requested and no fatal error was raised; a split's children cover exactly
\* the parent's range with no gaps and no overlaps.
C2_ActiveRangesPartition ==
    /\ Disjoint
    /\ Covered \subseteq Pulled
    /\ (Running /\ ~early_terminate) => Covered = Pulled
    /\ SplitCoversParent

\* a split into two children while another unit was retried, no cancellation
C2_Witness ==
    /\ SplitStep
    /\ ~early_terminate
    /\ Cardinality(NewIds) >= 2
    /\ \E i \in DOMAIN tasks : tasks[i].status = "failed"
    /\ Cardinality(Active) >= 3

\* ====================================================================== C3
\* C3 as stated: retries_to_go is never negative, every resubmitted task has
\* a strictly smaller retries_to_go than the failed task it replaces, and a
\* failure at retries_to_go = 0 raises and resubmits nothing.
C3_Original ==
    /\ \A i \in DOMAIN tasks : tasks[i].retries_to_go >= 0
    /\ ResubmitStep =>
          /\ \A n \in NewIds : tasks[n].retries_to_go < Parent.retries_to_go
          /\ Parent.retries_to_go = 0 => (Raised /\ NewIds = { })

\* C3 amended: retries_to_go is never negative; a retry clone has the failed
\* task's retries_to_go minus one; the children of a split get the executor's
\* whole retry budget, which is not smaller than the parent's; a failure at
\* retries_to_go = 0 raises and resubmits nothing.
C3_RetryBudget ==
    /\ \A i \in DOMAIN tasks : tasks[i].retries_to_go >= 0
    /\ ResubmitStep =>
          /\ (~SplitStep) =>
                \A n \in NewIds : tasks[n].retries_to_go = Parent.retries_to_go - 1
          /\ SplitStep =>
                \A n \in NewIds :
                    /\ tasks[n].retries_to_go = executor.retries
                    /\ tasks[n].retries_to_go >= Parent.retries_to_go
          /\ Parent.retries_to_go = 0 => (Raised /\ NewIds = { })

\* a retry clone, down to retries_to_go = 0, fails again: permanent failure
C3_Witness ==
    /\ ResubmitStep
    /\ Raised
    /\ Parent.retries_to_go = 0
    /\ executor.retries = 1
    /\ \E i \in DOMAIN tasks :
          /\ i # last.task
          /\ tasks[i].status = "failed"
          /\ tasks[i].itemid = Parent.itemid

\* ====================================================================== C4
ChildSizes == [ k \in 1..(Len(tasks) - last.before) |-> tasks[last.before + k].size ]

\* C4: a split of a unit of S >= 2 events, whatever the adaptive chunk size,
\* yields at least 2 children, consecutive from the parent's start to the
\* parent's stop, each of at least 1 event, their sizes summing to S.
C4_SplitPartitions ==
    (SplitStep /\ Parent.size >= 2) =>
        /\ Cardinality(NewIds) >= 2
        /\ tasks[last.before + 1].entrystart = Parent.entrystart
        /\ tasks[Len(tasks)].entrystop = Parent.entrystop
        /\ \A n \in NewIds :
              /\ tasks[n].size >= 1
              /\ tasks[n].size = tasks[n].entrystop - tasks[n].entrystart
              /\ n < Len(tasks) => tasks[n + 1].entrystart = tasks[n].entrystop
        /\ SumSeq(ChildSizes) = Parent.size

\* a split with the adaptive size above the unit's size, and an odd size
C4_Witness ==
    /\ SplitStep
    /\ Parent.size = 7
    /\ current_chunksize > Parent.size
    /\ Cardinality(NewIds) = 2

\* ====================================================================== C5
\* C5 as stated: every child of a split has the parent's remaining retry
\* budget at the time of the split.
C5_Original ==
    SplitStep => \A n \in NewIds : tasks[n].retries_to_go = Parent.retries_to_go

\* C5 amended: every child of a split has the executor's configured retry
\* budget (executor.retries), whatever the parent had left; this is the
\* parent's budget only when the parent had consumed no retry.
C5_ChildrenFullBudget ==
    SplitStep =>
        /\ NewIds # { }
        /\ \A n \in NewIds : tasks[n].retries_to_go = executor.retries
        /\ (\A n \in NewIds : tasks[n].retries_to_go = Parent.retries_to_go)
              <=> Parent.retries_to_go = executor.retries

\* a split of a unit that had already consumed a retry
C5_Witness ==
    /\ SplitStep
    /\ Parent.retries_to_go = 1
    /\ executor.retries = 2
    /\ \A n \in NewIds : tasks[n].retries_to_go = 2

\* ====================================================================== C6
\* C6: a split of a unit of S events uses target = the adaptive chunk size if
\* it is smaller than S, else ceil(S / 2), and yields exactly
\* n = ceil(S / target) children, each of ceil(S / n) events except a possibly
\* shorter last one; S = 200 with adaptive size 50 yields 4 children of 50.
C6_SplitCount ==
    SplitStep =>
        LET S == Parent.size
            target == IF current_chunksize < S THEN current_chunksize
                      ELSE (S + 1) \div 2
            n == (S + target - 1) \div target
            each == (S + n - 1) \div n
        IN  /\ Cardinality(NewIds) = n
            /\ \A k \in 1..n :
                  IF k < n THEN ChildSizes[k] = each
                  ELSE ChildSizes[k] <= each /\ ChildSizes[k] >= 1
            /\ (S = 200 /\ current_chunksize = 50) =>
                  ChildSizes = << 50, 50, 50, 50 >>

\* the scenario: 200 events, adaptive size 50
C6_Witness ==
    /\ SplitStep
    /\ Parent.size = 200
    /\ current_chunksize = 50
    /\ Len(ChildSizes) = 4

\* ====================================================================== C7
SameWork(a, b) ==
    /\ a.category = b.category
    /\ a.entrystart = b.entrystart
    /\ a.entrystop = b.entrystop
    /\ a.tasks_to_accumulate = b.tasks_to_accumulate

\* C7: a failure other than resource exhaustion is answered, if retries_to_go
\* is at least 1, by exactly one clone of the same work with retries_to_go
\* decreased by one; else by a permanent failure; in every configuration.
C7_Claim ==
    (ResubmitStep /\ Parent.result = "other") =>
        IF Parent.retries_to_go >= 1
        THEN /\ ~Raised
             /\ Cardinality(NewIds) = 1
             /\ \A n \in NewIds :
                   /\ SameWork(tasks[n], Parent)
                   /\ tasks[n].retries_to_go = Parent.retries_to_go - 1
        ELSE Raised /\ NewIds = { }

\* ====================================================================== C8
ExhaustedSplittable ==
    /\ ResubmitStep
    /\ IsProc(last.task)
    /\ Parent.result = "exhaustion"
    /\ Parent.size >= 2

\* C8 as stated: a processing task of at least 2 events that fails with
\* resource exhaustion is always split.
C8_Original ==
    ExhaustedSplittable => (SplitStep /\ ~Raised /\ Cardinality(NewIds) >= 2)

\* C8 amended: it is split (retired and replaced by at least 2 children)
\* whenever splitting on exhaustion is enabled and its retries_to_go is at
\* least 1.
C8_SplitWhenAllowed ==
    (ExhaustedSplittable /\ executor.split_on_exhaustion /\ Parent.retries_to_go >= 1) =>
        /\ SplitStep
        /\ ~Raised
        /\ Cardinality(NewIds) >= 2
        /\ \A n \in NewIds : IsProc(n) /\ tasks[n].status = "submitted"

\* a unit of 3 events with one retry left is split in two
C8_Witness ==
    /\ ExhaustedSplittable
    /\ SplitStep
    /\ Parent.size = 3
    /\ Parent.retries_to_go = 1
    /\ Cardinality(NewIds) = 2

\* ====================================================================== C9
\* C9: a processing task of fewer than 2 events that fails with
\* retries_to_go = 0 is a permanent failure, whatever the reason: an error
\* is raised, it is not split and nothing is resubmitted.
C9_SmallUnitPermanent ==
    (ResubmitStep /\ IsProc(last.task) /\ Parent.size < 2 /\ Parent.retries_to_go = 0) =>
        /\ Raised
        /\ NewIds = { }
        /\ Parent.status = "failed"

\* a one-event unit with no retry left exhausts its resources
C9_Witness ==
    /\ ResubmitStep
    /\ IsProc(last.task)
    /\ Parent.size = 1
    /\ Parent.retries_to_go = 0
    /\ Parent.result = "exhaustion"
    /\ Raised

\* ===================================================================== C10
\* C10: every accumulation task ever submitted, retry clones and forced
\* emissions included, has at least 2 and at most chunks_per_accum inputs.
C10_AccumInputBounds ==
    \A a \in DOMAIN tasks :
        IsAccum(a) =>
            /\ Len(tasks[a].tasks_to_accumulate) >= 2
            /\ Len(tasks[a].tasks_to_accumulate) <= executor.chunks_per_accum

\* a forced emission that left a single result pending, and a retry clone
\* of an accumulation task
C10_Witness ==
    /\ \E a, b \in DOMAIN tasks :
          /\ a < b
          /\ IsAccum(a) /\ IsAccum(b)
          /\ tasks[a].status = "failed"
          /\ tasks[b].tasks_to_accumulate = tasks[a].tasks_to_accumulate
    /\ \E c \in DOMAIN tasks :
          /\ IsProc(c)
          /\ tasks[c].status = "done"
          /\ \A a \in DOMAIN tasks : c \notin Range(tasks[a].tasks_to_accumulate)
          /\ tasks_to_accumulate = << c >>
          /\ items_done = executor.events_total

\* ===================================================================== C11
\* the step is the success handler and its emission: the pending list when
\* _submit_accum_tasks was called, the accumulation tasks it submitted
SuccessStep == last'.op = "success"
PendingAtEmission == Append(tasks_to_accumulate, last'.task)
Emitted == (Len(tasks) + 1)..Len(tasks')
TimesEmitted(i) ==
    Cardinality({ u \in Emitted \X (1..Len(tasks')) :
                    /\ u[2] \in DOMAIN tasks'[u[1]].tasks_to_accumulate
                    /\ tasks'[u[1]].tasks_to_accumulate[u[2]] = i })

\* C11 as stated: at every emission, every task that was pending when the
\* emission started is an input of exactly one of the emitted accumulation
\* tasks.
C11_Original ==
    [][ (SuccessStep /\ Emitted # { }) =>
            \A i \in Range(PendingAtEmission) : TimesEmitted(i) = 1 ]_vars

\* C11 amended: at every emission, every task that was pending when the
\* emission started is either an input of exactly one of the emitted
\* accumulation tasks or left in the pending list, never both and never
\* neither; the emitted tasks have no other inputs, and fewer than
\* chunks_per_accum tasks are left pending.
C11_EmissionPartitions ==
    [][ (SuccessStep /\ Emitted # { }) =>
            /\ \A i \in Range(PendingAtEmission) :
                  TimesEmitted(i) + Occurrences(tasks_to_accumulate', i) = 1
            /\ \A a \in Emitted :
                  Range(tasks'[a].tasks_to_accumulate) \subseteq Range(PendingAtEmission)
            /\ Range(tasks_to_accumulate') \subseteq Range(PendingAtEmission)
            /\ Len(tasks_to_accumulate') < executor.chunks_per_accum ]_vars

\* an emission, not forced, of one full group that left two results pending
C11_Witness ==
    /\ last.op = "success"
    /\ ~early_terminate
    /\ items_done < executor.events_total
    /\ Cardinality(NewIds) = 1
    /\ \A n \in NewIds : IsAccum(n) /\ Len(tasks[n].tasks_to_accumulate) = 3
    /\ Len(tasks_to_accumulate) = 2

\* ===================================================================== C12
SizesOf(ids) == [ k \in DOMAIN ids |-> tasks[ids[k]].size ]

\* events of the results pending accumulation, plus events of the
\* accumulation tasks in flight (results being accumulated); a result already
\* accumulated is counted in the result of the task that accumulated it
EventsHeld ==
    SumSeq(SizesOf(tasks_to_accumulate))
    + SumSeq(SizesOf(SelectSeq([ i \in DOMAIN tasks |-> i ],
                               LAMBDA i : IsAccum(i) /\ tasks[i].status = "submitted")))

\* events of the successful processing tasks
EventsProcessed ==
    SumSeq(SizesOf(SelectSeq([ i \in DOMAIN tasks |-> i ],
                             LAMBDA i : IsProc(i) /\ tasks[i].status = "done")))

\* C12: at every state of a run, the events of the results pending
\* accumulation, being accumulated or already accumulated never exceed
\* items_done (and are items_done as long as no fatal error was raised),
\* items_done is the number of events of the successful processing tasks and
\* never exceeds items_submitted, which never exceeds the declared total.
C12_EventsBounded ==
    /\ EventsHeld <= items_done
    /\ pc # "failed" => EventsHeld = items_done
    /\ items_done = EventsProcessed
    /\ items_done <= items_submitted
    /\ items_submitted <= executor.events_total

\* after a split and the cancellation of one of the children, the other
\* child reports success
C12_Witness ==
    /\ \E i \in DOMAIN tasks : tasks[i].status = "split"
    /\ \E i \in DOMAIN tasks : tasks[i].status = "cancelled"
    /\ last.op = "success" /\ IsProc(last.task) /\ early_terminate
    /\ items_done > 0
    /\ items_done < items_submitted

\* ===================================================================== C13
\* the main loop has ended normally: the final reduction is reached
LoopExited == last.op \in { "exit", "final" }

\* C13: whenever the loop has ended normally, no processing or accumulation
\* task is submitted and unresolved, and either all declared events are
\* completed or early termination was requested.
C13_ExitsWhenDrained ==
    LoopExited =>
        /\ InFlight = { }
        /\ items_done >= executor.events_total \/ early_terminate

\* the loop ends after early termination, short of the declared total, after
\* an accumulation task submitted after the request has resolved
C13_Witness ==
    /\ last.op = "exit"
    /\ early_terminate
    /\ items_done < executor.events_total
    /\ \E i \in DOMAIN tasks : tasks[i].status = "cancelled"
    /\ DoneAccums # { }

\* ===================================================================== C14
\* C14: once early termination has been requested, no processing task is
\* submitted to the backend afterwards, by the submission loop or by the
\* resubmission policy.
C14_Claim ==
    early_terminate => \A n \in NewIds : ~IsProc(n)

\* ===================================================================== C15
\* the result of task i is part of the accumulator returned by the final
\* reduction: merged by it, or an input of a successful accumulation task
\* whose result is
RECURSIVE Reduced(_)
Reduced(i) ==
    \/ i \in Range(merged)
    \/ \E b \in DoneAccums :
          i \in Range(tasks[b].tasks_to_accumulate) /\ Reduced(b)

\* the accumulation tasks in flight
AccumsInFlight == { a \in InFlight : IsAccum(a) }

\* C15: the first request of early termination cancels processing tasks
\* only, so that every accumulation task in flight at that moment is still
\* in flight after it; no accumulation task is ever cancelled; after the
\* request the loop does not end while an accumulation task is in flight;
\* and in a finished run the result of every successful accumulation task is
\* part of the accumulator the final reduction returns.
C15_AccumulationsSurvive ==
    /\ [][ last'.op = "early_terminate" =>
              \A a \in AccumsInFlight : tasks'[a] = tasks[a] ]_vars
    /\ [](\A i \in DOMAIN tasks : tasks[i].status = "cancelled" => IsProc(i))
    /\ []((early_terminate /\ (LoopExited \/ pc = "done")) => AccumsInFlight = { })
    /\ []((early_terminate /\ pc = "done") => \A a \in DoneAccums : Reduced(a))

\* the request has just been handled while an accumulation task was in flight
C15_Witness ==
    /\ last.op = "early_terminate"
    /\ early_terminate
    /\ AccumsInFlight # { }

\* ===================================================================== C16
SubmittedWith(i) ==
    \E n \in NewIds : IsAccum(n) /\ i \in Range(tasks[n].tasks_to_accumulate)

\* C16: a processing task that reports success after early termination was
\* requested is handled like any other success: it is resolved as done, its
\* result is appended to the pending list (where it stays or is at once input
\* of an emitted accumulation task), its events are counted in items_done,
\* and its result is part of the accumulator the final reduction returns.
C16_LateSuccessKept ==
    /\ (last.op = "success" /\ early_terminate /\ IsProc(last.task)) =>
          /\ tasks[last.task].status = "done"
          /\ Occurrences(tasks_to_accumulate, last.task) + (IF SubmittedWith(last.task) THEN 1 ELSE 0) = 1
          /\ items_done = EventsProcessed
    /\ (early_terminate /\ pc = "done") =>
          \A p \in DOMAIN tasks :
              (IsProc(p) /\ tasks[p].status = "done") => FinalCount(p) = 1

\* the request cancelled one processing task, and another one, in flight at
\* the request, has just reported success
C16_Witness ==
    /\ last.op = "success"
    /\ early_terminate
    /\ IsProc(last.task)
    /\ \E i \in DOMAIN tasks : tasks[i].status = "cancelled"
    /\ last.task \in Range(tasks_to_accumulate)

\* ===================================================================== C17
\* C17: at the final local reduction, an empty pending list raises a fatal
\* error and nothing is returned; a pending list of one or more results does
\* not fail, and every pending result is merged (once) into the returned
\* accumulator.
C17_FinalReduction ==
    last.op = "final" =>
        IF tasks_to_accumulate = << >>
        THEN pc = "failed" /\ merged = << >>
        ELSE /\ pc = "done"
             /\ merged = tasks_to_accumulate
             /\ \A i \in Range(tasks_to_accumulate) : Occurrences(merged, i) = 1

\* the final reduction merged more than one pending result
C17_Witness ==
    /\ last.op = "final"
    /\ pc = "done"
    /\ Len(merged) > 1

\* ===================================================================== C18
\* first-level accumulation tasks: all their inputs are processing results
FirstLevel ==
    { a \in DOMAIN tasks :
        IsAccum(a) /\ \A i \in Range(tasks[a].tasks_to_accumulate) : IsProc(i) }

\* C18 as stated: in the scenario, under every order of completions, exactly
\* 4 first-level accumulation tasks are submitted.
C18_Original ==
    pc = "done" => Cardinality(FirstLevel) = 4

\* C18 amended: in the scenario, under every order of completions, at least
\* 1 and at most 3 first-level accumulation tasks are submitted, never 4.
C18_FirstLevelTasks ==
    /\ Cardinality(FirstLevel) <= 3
    /\ pc = "done" => Cardinality(FirstLevel) >= 1

\* the scenario has run to its end with 3 first-level accumulation tasks
C18_Witness ==
    /\ pc = "done"
    /\ items_done = 1000
    /\ Cardinality({ i \in DOMAIN tasks : IsProc(i) /\ tasks[i].status = "done" }) = 10
    /\ Cardinality(FirstLevel) = 3

\* ===================================================================== C19
ConfigError ==
    \/ _check_dynamic_chunksize_targets(executor.dynamic_chunksize)
    \/ executor.chunks_per_accum < 2
    \/ executor.chunks_accum_in_mem < 2

\* C19: a configuration error (an unknown dynamic-sizing target,
\* chunks_per_accum < 2 or chunks_accum_in_mem < 2) is raised before the main
\* loop starts: with such a configuration no task is ever submitted to the
\* backend.
C19_Claim ==
    ConfigError => tasks = << >>

\* ===================================================================== C20
Estimated == last.op = "estimate"
RECURSIVE IsPow2(_)
IsPow2(n) == n = 1 \/ (n > 1 /\ n % 2 = 0 /\ IsPow2(n \div 2))

\* C20 as stated: the estimate computed with fewer than 2 samples, or with no
\* resource targets, is the base chunk size unchanged.
C20_Original ==
    (Estimated /\ (NumReports < 2 \/ ~Truthy(executor.dynamic_chunksize))) =>
        pc = "estimated" /\ chunksize = executor.chunksize

\* C20 amended: the estimate computed with fewer than 2 samples, or with
\* dynamic_chunksize None, is the largest power of two not above the base
\* chunk size: the base size unchanged exactly when it is a power of two. An
\* empty dictionary of targets with 2 samples or more raises KeyError.
C20_BaseFloored ==
    /\ (Estimated /\ (NumReports < 2 \/ executor.dynamic_chunksize.none)) =>
          /\ pc = "estimated"
          /\ IsPow2(chunksize)
          /\ chunksize <= executor.chunksize
          /\ executor.chunksize < 2 * chunksize
          /\ chunksize = executor.chunksize <=> IsPow2(executor.chunksize)
    /\ (Estimated /\ NumReports >= 2 /\ ~executor.dynamic_chunksize.none
                  /\ executor.dynamic_chunksize.keys = { }) =>
          pc = "failed"

\* a base size of 3 with one sample and both targets gives 2
C20_Witness ==
    /\ Estimated
    /\ NumReports = 1
    /\ executor.dynamic_chunksize.keys = { "wall_time", "memory" }
    /\ executor.chunksize = 3
    /\ chunksize = 2

\* ------------------------------------------------------------------- C21
\* C21: in a run without early termination and without permanent failure,
\* when the main loop exits exactly one result is left in the pending list
\* for the final local reduction; every other result was folded by a remote
\* accumulation task.
C21_OneResultAtExit ==
    (last.op = "exit" /\ ~early_terminate) =>
        /\ Len(tasks_to_accumulate) = 1
        /\ \A i \in DOMAIN tasks :
              (tasks[i].status = "done" /\ i \notin Range(tasks_to_accumulate))
                  => TimesMerged(i) = 1

\* the loop exits with one pending result after a retry and a split, the
\* other results folded remotely
C21_Witness ==
    /\ last.op = "exit"
    /\ ~early_terminate
    /\ Len(tasks_to_accumulate) = 1
    /\ \E i \in DOMAIN tasks : tasks[i].status = "split"
    /\ \E i \in DOMAIN tasks : tasks[i].status = "failed"
    /\ \E a \in DOMAIN tasks : IsAccum(a) /\ tasks[a].status = "done"

\* ------------------------------------------------------------------- C22
\* force_last_accum as the success handler computes it (line 795)
ForcedAtEmission == items_done' >= executor.events_total \/ early_terminate

\* C22: when emission is not forced and fewer than 2 * chunks_per_accum - 1
\* tasks are pending, the scheduler submits no accumulation task and leaves
\* the pending list as it is; when at least 2 * chunks_per_accum - 1 tasks
\* are pending, or emission is forced and at least 2 tasks are pending, it
\* submits at least one accumulation task.
C22_EmissionThreshold ==
    [][ (SuccessStep /\ pc' # "failed") =>
            LET n == Len(PendingAtEmission)
                threshold == 2 * executor.chunks_per_accum - 1
            IN  /\ (~ForcedAtEmission /\ n < threshold) =>
                      /\ Emitted = { }
                      /\ tasks_to_accumulate' = PendingAtEmission
                /\ (n >= threshold \/ (ForcedAtEmission /\ n >= 2)) =>
                      Emitted # { } ]_vars

\* a forced emission from a pending list below the threshold: the last
\* processing result arrived, and the accumulation tasks submitted and the
\* results left pending are together fewer than 2 * chunks_per_accum - 1
C22_Witness ==
    /\ last.op = "success"
    /\ ~early_terminate
    /\ items_done >= executor.events_total
    /\ NewIds # { }
    /\ \A n \in NewIds : IsAccum(n)
    /\ SumSeq([ k \in 1..Len(tasks) |->
                  IF k \in NewIds THEN Len(tasks[k].tasks_to_accumulate) ELSE 0 ])
         + Len(tasks_to_accumulate) < 2 * executor.chunks_per_accum - 1

\* ------------------------------------------------------------------- C23
\* p <= v < 2p for the double v and the integer p
Brackets(p, v) ==
    /\ (IF v.below THEN p < v.n ELSE p <= v.n)
    /\ v.n <= 2 * p
    /\ (v.n = 2 * p => v.below)

\* C23 as stated: for every computed value v the floored chunk size p is a
\* power of two with p <= v < 2p when v >= 1, and p = 1 when v < 1.
C23_Claim ==
    last.op = "floor" =>
        /\ IsPow2(chunksize)
        /\ ~LessThanOne(last.before) => Brackets(chunksize, last.before)
        /\ LessThanOne(last.before) => chunksize = 1

\* ------------------------------------------------------------------- C24
\* deserialized partial results in memory: the results of in_memory, and the
\* accumulator while it is the result of the first file loaded, nothing
\* merged into it yet
HeldResults ==
    Len(frame.in_memory)
    + (IF ~frame.initial /\ Len(frame.accumulator) = 1 THEN 1 ELSE 0)

\* C24 as stated: the merge routine holds at most chunks_accum_in_mem
\* deserialized partial results in memory at any time.
C24_Original == HeldResults <= executor.chunks_accum_in_mem

\* C24 amended: the routine holds at most chunks_accum_in_mem deserialized
\* partial results in its buffer in_memory at any time; the accumulator is
\* held besides them, so that at most chunks_accum_in_mem + 1 deserialized
\* results are in memory.
C24_BufferBounded ==
    /\ Len(frame.in_memory) <= executor.chunks_accum_in_mem
    /\ HeldResults <= executor.chunks_accum_in_mem + 1

\* the buffer is full, about to be merged, while the accumulator is still the
\* result of the first file
C24_Witness ==
    /\ pc = "loaded"
    /\ executor.chunks_accum_in_mem >= 3
    /\ Len(frame.in_memory) = executor.chunks_accum_in_mem
    /\ HeldResults = executor.chunks_accum_in_mem + 1

\* ------------------------------------------------------------------- C25
\* the files given to accumulate_result_files
InputFiles == 1..executor.events_total

\* C25: accumulate_result_files merges every file of its input list into the
\* returned accumulator exactly once, and returns with no loaded result left
\* unmerged in in_memory, for every list length and every
\* chunks_accum_in_mem >= 2.
C25_EveryFileMergedOnce ==
    pc = "returned" =>
        /\ \A f \in InputFiles : Occurrences(merged, f) = 1
        /\ Range(merged) \subseteq InputFiles
        /\ frame.in_memory = << >>

\* the routine returned from a list shorter than chunks_accum_in_mem, merged
\* into an initial accumulator through the buffer
C25_Witness ==
    /\ pc = "returned"
    /\ frame.initial
    /\ executor.events_total >= 2
    /\ executor.events_total < executor.chunks_accum_in_mem
    /\ Len(merged) = executor.events_total

\* ------------------------------------------------------------------- C26
\* the last step handled a task that the backend reported successful and
\* whose output cannot be loaded
UnavailableStep == last.op = "success" /\ Parent.itemid \in outputs.unloadable

\* C26 as stated: a task whose output resolves to the unavailable-result
\* sentinel is treated as failed: it is not appended to the pending list (nor
\* given to an accumulation task), it is not counted as completed, and it
\* goes through the resubmission policy.
C26_Claim ==
    UnavailableStep =>
        /\ last.task \notin Range(tasks_to_accumulate)
        /\ \A n \in NewIds : last.task \notin Range(tasks[n].tasks_to_accumulate)
        /\ Parent.status # "done"
        /\ items_done <= SumSeq([ k \in DOMAIN tasks |->
                                    IF k # last.task /\ IsProc(k) /\ tasks[k].status = "done"
                                    THEN tasks[k].size ELSE 0 ])

\* ------------------------------------------------------------------- C27
\* the tasks whose output was consumed: inputs of a successful accumulation
\* task, or merged by the final local reduction
Consumed == { i \in DOMAIN tasks : TimesMerged(i) >= 1 }

\* C27: an output artifact is deleted only after the accumulation task that
\* consumes it has succeeded or the final reduction has merged it, never
\* while an accumulation task in flight (first attempt or retry) still needs
\* it; no deletion hits a file that is gone, and when the run returns
\* normally every output artifact written was deleted, once.
C27_OutputsDeletedOnce ==
    /\ outputs.removed \subseteq { tasks[i].itemid : i \in Consumed }
    /\ \A a \in AccumsInFlight :
          /\ OutputsOf(tasks, tasks[a].tasks_to_accumulate) \subseteq outputs.exists
          /\ ~RemoveRaises(outputs, tasks, tasks[a].tasks_to_accumulate)
    /\ pc = "final" /\ outputs.unloadable = { } =>
          ~RemoveRaises(outputs, tasks, tasks_to_accumulate)
    /\ pc = "done" =>
          /\ outputs.exists = { }
          /\ outputs.removed =
                { tasks[i].itemid : i \in { k \in DOMAIN tasks : tasks[k].status = "done" } }

\* an accumulation task failed and its retry is in flight: the outputs it
\* needs are on disk, while those consumed by an earlier accumulation task
\* are deleted
C27_Witness ==
    /\ outputs.removed # { }
    /\ \E a \in DOMAIN tasks, b \in AccumsInFlight :
          /\ IsAccum(a) /\ tasks[a].status = "failed"
          /\ tasks[a].tasks_to_accumulate = tasks[b].tasks_to_accumulate
          /\ OutputsOf(tasks, tasks[b].tasks_to_accumulate) \subseteq outputs.exists

\* ------------------------------------------------------------------- C28
\* the run has ended: the final reduction returned, or an error was raised
Terminated == pc \in { "done", "failed" }

\* C28: with a finite input, a finite retry budget and a backend that
\* resolves every submitted task, every run of the processing loop ends, by
\* the final reduction or by a fatal error, whatever the failures, retries
\* and splits.
C28_LoopTerminates == <>Terminated

\* the loop reached the final reduction after a split whose child failed and
\* was retried: three failures, the children with a fresh budget
C28_Witness ==
    /\ pc = "done"
    /\ \E i \in DOMAIN tasks : tasks[i].status = "split"
    /\ NumFailed >= 3

\* ------------------------------------------------------------------- C29
\* the last step was a retry: one clone of the failed task
RetryStep == ResubmitStep /\ ~Raised /\ Parent.status = "failed"

\* C29 as stated: a retry clone differs from the failed task it replaces only
\* in its retry budget: same range for a processing task; same input list,
\* same chunks_accum_in_mem and same item id for an accumulation task.
C29_Claim ==
    RetryStep =>
        \A n \in NewIds :
            /\ SameWork(tasks[n], Parent)
            /\ tasks[n].size = Parent.size
            /\ tasks[n].chunks_accum_in_mem = Parent.chunks_accum_in_mem
            /\ tasks[n].itemid = Parent.itemid

\* ------------------------------------------------------------------- C30
\* the last step handled the resource exhaustion of a task that is not a
\* processing task
UnsplittableExhausted ==
    /\ ResubmitStep
    /\ Parent.category \in { "accumulating", "preprocessing" }
    /\ Parent.result = "exhaustion"

\* C30: an accumulation or preprocessing task that fails with resource
\* exhaustion is never split and never retried, whatever its retry budget:
\* an error is raised, no task is submitted for it, and its inputs are not
\* given to another accumulation task.
C30_ExhaustionFatal ==
    UnsplittableExhausted =>
        /\ Raised
        /\ NewIds = { }
        /\ Parent.status = "failed"
        /\ \A j \in DOMAIN tasks :
              (j # last.task /\ IsAccum(j) /\ IsAccum(last.task)
               /\ tasks[j].tasks_to_accumulate = Parent.tasks_to_accumulate)
                  => tasks[j].status = "failed"

\* an accumulation task with retries left, splitting enabled, failed with
\* resource exhaustion: the error was raised
C30_Witness ==
    /\ UnsplittableExhausted
    /\ IsAccum(last.task)
    /\ Parent.retries_to_go >= 1
    /\ executor.split_on_exhaustion
    /\ Raised

\* ===================================================================== C31
\* dynamic sizing enabled for the resource dimension k only
SingleDimension(k) ==
    /\ ~executor.dynamic_chunksize.none
    /\ executor.dynamic_chunksize.keys = { k }

\* the chunk sizes the estimate of dimension k alone can give: its projection
\* floored to a power of two, the floored base size when it gives none
EstimatedFrom(k) ==
    { _floor_to_pow2(ChosenSize(executor.chunksize, e, NoEstimate)) :
        e \in IF executor.dynamic_chunksize.value[k] # 0
              THEN _compute_chunksize_target(executor.dynamic_chunksize.value[k],
                                             task_reports)
              ELSE { NoEstimate } }

\* the estimate was computed for dimension k alone, from 2 samples or more
SingleEstimateStep(k) ==
    /\ last.op = "estimate"
    /\ NumReports >= 2
    /\ SingleDimension(k)

\* C31: with dynamic sizing enabled for one resource dimension only (only
\* wall_time, or only memory) and at least 2 samples, the estimator raises no
\* error and returns a chunk size computed from that dimension alone.
C31_Claim ==
    \A k \in { "wall_time", "memory" } :
        SingleEstimateStep(k) =>
            /\ pc # "failed"
            /\ chunksize \in EstimatedFrom(k)

\* the half of C31 that the code keeps: only memory in the targets
C31_MemoryOnly ==
    SingleEstimateStep("memory") =>
        /\ pc # "failed"
        /\ chunksize \in EstimatedFrom("memory")

\* only memory in the targets, 2 samples, and an estimate that differs from
\* the floored base size
C31_MemoryOnlyReached ==
    /\ SingleEstimateStep("memory")
    /\ pc = "estimated"
    /\ chunksize # _floor_to_pow2(executor.chunksize)

\* only wall_time in the targets, 2 samples: the estimate raised
C31_TimeOnlyRaised ==
    /\ SingleEstimateStep("wall_time")
    /\ pc = "failed"

====
